---- MODULE Spec2Model ----
(***************************************************************************)
(* Model of SmartGadget.py: the HumiGadget driver and its two variants,    *)
(* SHT3xHumiGadget (split temperature/humidity characteristics, fusion     *)
(* buffer _current_rht) and SHTC1HumiGadget (one combined characteristic). *)
(*                                                                         *)
(* One gadget object is modelled.  Every public method and every           *)
(* notification handler is one action that runs the whole method.  The     *)
(* pygatt connection is the environment: each transport call either        *)
(* succeeds or raises, chosen by the action's inputs.  The variables       *)
(* last, calls, invoked and ret record what the most recent call was (and, *)
(* for reads and notifications, what the peripheral sent), which transport *)
(* calls it issued, which callbacks it invoked and what it returned or     *)
(* raised.  frames holds the local variables of the notification handlers  *)
(* that are part-way through, for the specification in which deliveries    *)
(* interleave line by line.                                                *)
(*                                                                         *)
(* Floats are exact rationals [num, den]; byte strings are sequences of    *)
(* integers 0..255.                                                        *)
(***************************************************************************)
EXTENDS Integers, Sequences, FiniteSets, TLC

VARIABLES variant, ble_global, _con, addr_type, rht_callbacks, _current_rht,
          tsub, now, last, calls, invoked, ret, frames

vars == <<variant, ble_global, _con, addr_type, rht_callbacks, _current_rht,
          tsub, now, last, calls, invoked, ret, frames>>

(* ------------------------------ bounds -------------------------------- *)

\* number of distinct callback functions a caller may register
NumCallbacks == 2
\* largest value of the wall clock time.time()
MaxTime == 1
\* the longest list of discovered devices
MaxDevices == 3

Callbacks == 1..NumCallbacks

(* --------------------------- class constants -------------------------- *)

SHTC1_NAME == "SHTC1 smart gadget"
SHT3X_NAME == "Smart Humigadget"
GADGET_NAMES == <<SHTC1_NAME, SHT3X_NAME>>

RHT_FORMAT == <<"time", "temperature", "humidity">>
HUMI_FORMAT == <<"time", "humidity">>
TEMP_FORMAT == <<"time", "temperature">>
BAT_FORMAT == <<"time", "battery">>
LOG_INTV_FORMAT == <<"time", "log_interval">>

BAT_CHAR_UUID == "00002a19-0000-1000-8000-00805f9b34fb"
TEMP_SRVC_UUID == "00002234-b38d-4985-720e-0f993a68ee41"
HUMI_SRVC_UUID == "00001234-b38d-4985-720e-0f993a68ee41"
TEMP_NOTI_UUID == "00002235-b38d-4985-720e-0f993a68ee41"
HUMI_NOTI_UUID == "00001235-b38d-4985-720e-0f993a68ee41"
LOG_INTV_CHAR_UUID == "0000f239-b38d-4985-720e-0f993a68ee41"
RHT_CHAR_UUID == "0000aa21-0000-1000-8000-00805f9b34fb"

\* a mutant of ADDRESS_TYPE: SHTC1HumiGadget without its own ADDRESS_TYPE
ADDRESS_TYPE_inherited(v) == "random"

\* HumiGadget.ADDRESS_TYPE, overridden by SHTC1HumiGadget.ADDRESS_TYPE
ADDRESS_TYPE(v) == IF v = "SHTC1" THEN "public" ELSE "random"

Range(s) == {s[i] : i \in 1..Len(s)}

(* ------------------------------- codec -------------------------------- *)

Pow2(n) == 2 ^ n

Rat(n, d) == [num |-> n, den |-> d]

\* signed 16-bit little-endian integer of two bytes
Int16le(lo, hi) ==
  LET u == lo + 256 * hi IN IF u >= 32768 THEN u - 65536 ELSE u

RECURSIVE ReduceBin(_, _)
\* n / 2^s in lowest terms (s may be negative)
ReduceBin(n, s) ==
  IF s >= 8 /\ n % 256 = 0 THEN ReduceBin(n \div 256, s - 8)
  ELSE IF s > 0 /\ n % 2 = 0 THEN ReduceBin(n \div 2, s - 1)
  ELSE IF s >= 0 THEN Rat(n, Pow2(s))
  ELSE Rat(n * Pow2(0 - s), 1)

\* a raised exception / a returned value / a returned None
Raise(e) == [kind |-> "raise", val |-> e]
Ok(v) == [kind |-> "ok", val |-> v]
None == [kind |-> "none", val |-> "None"]

\* struct.unpack('<f', data): IEEE-754 single precision, little endian
Unpack_f(data) ==
  IF Len(data) # 4 THEN Raise("struct.error")
  ELSE LET sign == data[4] \div 128
           e    == (data[4] % 128) * 2 + data[3] \div 128
           m    == (data[3] % 128) * 65536 + data[2] * 256 + data[1]
           mag  == IF e = 0 /\ m = 0 THEN Rat(0, 1)
                   ELSE ReduceBin(Pow2(23) + m, 150 - e)
       IN Ok(<<IF sign = 1 THEN Rat(0 - mag.num, mag.den) ELSE mag>>)

\* struct.unpack('<B', data)
Unpack_B(data) ==
  IF Len(data) # 1 THEN Raise("struct.error") ELSE Ok(<<Rat(data[1], 1)>>)

\* struct.unpack('<i', data): signed 32-bit little endian
Unpack_i(data) ==
  IF Len(data) # 4 THEN Raise("struct.error")
  ELSE LET hi == IF data[4] >= 128 THEN data[4] - 256 ELSE data[4]
       IN Ok(<<Rat(hi * 16777216 + data[3] * 65536 + data[2] * 256 + data[1], 1)>>)

\* a mutant of _unpack_fixp: the two values in the wrong order
_unpack_fixp_swapped(data) ==
  IF Len(data) # 4 THEN Raise("struct.error")
  ELSE Ok(<<Rat(Int16le(data[3], data[4]), 100),
            Rat(Int16le(data[1], data[2]), 100)>>)

\* SHTC1HumiGadget._unpack_fixp: struct.unpack('<hh', data), each / 100.
_unpack_fixp(data) ==
  IF Len(data) # 4 THEN Raise("struct.error")
  ELSE Ok(<<Rat(Int16le(data[1], data[2]), 100),
            Rat(Int16le(data[3], data[4]), 100)>>)

\* the unpack argument of read_characteristic: a format string or a callable
Unpack(fmt, data) ==
  CASE fmt = "<f" -> Unpack_f(data)
    [] fmt = "<B" -> Unpack_B(data)
    [] fmt = "<i" -> Unpack_i(data)
    [] OTHER      -> _unpack_fixp(data)

\* dict(zip(keys, vals)): pairs up to the shorter length, later keys win
ZipDict(keys, vals) ==
  LET n == IF Len(keys) < Len(vals) THEN Len(keys) ELSE Len(vals)
  IN [k \in {keys[i] : i \in 1..n} |->
        vals[CHOOSE i \in 1..n : keys[i] = k /\ \A j \in (i+1)..n : keys[j] # k]]

\* the empty dict {}
EmptyDict == [k \in {} |-> 0]

\* d[key] = val on a dict
DictSet(d, key, val) ==
  [k \in DOMAIN d \cup {key} |-> IF k = key THEN val ELSE d[k]]

(* --------------------------- what peripherals send -------------------- *)

\* the temperature characteristic sends 10.0 or a short payload, the
\* humidity characteristic 50.0 or a short payload
TempPayloads == {<<0, 0, 32, 65>>, <<0, 0, 32>>}
HumiPayloads == {<<0, 0, 72, 66>>, <<0, 0, 72>>}
FixpPayloads == {<<246, 9, 212, 18>>, <<255, 255, 0, 128>>, <<246, 9, 212>>}
BatPayloads == {<<100>>, <<>>}
IntvPayloads == {<<24, 252, 255, 255>>, <<1, 0>>}

PayloadsOf(uuid) ==
  CASE uuid = BAT_CHAR_UUID -> BatPayloads
    [] uuid = LOG_INTV_CHAR_UUID -> IntvPayloads
    [] uuid = RHT_CHAR_UUID -> FixpPayloads
    [] uuid = TEMP_NOTI_UUID -> TempPayloads
    [] uuid = HUMI_NOTI_UUID -> HumiPayloads

(* ------------------- the gadget object, as a record ------------------- *)

\* The fields a method reads and writes: con is bool(self._con), cbs is
\* self.rht_callbacks, buf is self._current_rht; tsub and addr are the
\* state of the pygatt connection (subscribed characteristics, address type
\* it was opened with); calls and invoked are the transport calls issued
\* and the callbacks invoked so far by the running method; res is the value
\* it returns and exc the exception that has been raised in it, "" if none.
Self ==
  [con |-> _con, cbs |-> rht_callbacks, buf |-> _current_rht, tsub |-> tsub,
   addr |-> addr_type, calls |-> <<>>, invoked |-> <<>>, res |-> None,
   exc |-> ""]

Outcomes == {"ok", "raise"}

\* list.remove(x): removes the first occurrence (the caller checks membership)
ListRemove(l, x) ==
  LET i == CHOOSE k \in 1..Len(l) : l[k] = x /\ \A j \in 1..(k-1) : l[j] # x
  IN [k \in 1..(Len(l) - 1) |-> IF k < i THEN l[k] ELSE l[k + 1]]

\* BLEAdapter.connect: the default address type only when none is given
BLEAdapter_connect(address_type) ==
  IF address_type = "None" THEN "random" ELSE address_type

\* HumiGadget.subscribe_service: self._con.subscribe(uuid, callback); on a
\* connection object whose link is gone the transport raises
subscribe_service(s, uuid, o) ==
  IF s.exc # "" THEN s
  ELSE IF ~s.con THEN [s EXCEPT !.exc = "AttributeError"]
  ELSE IF s.addr = "none"
       THEN [s EXCEPT !.calls = Append(@, <<"subscribe", uuid>>),
                      !.exc = "NotConnectedError"]
  ELSE IF o = "ok"
       THEN [s EXCEPT !.tsub = @ \cup {uuid},
                      !.calls = Append(@, <<"subscribe", uuid>>)]
       ELSE [s EXCEPT !.calls = Append(@, <<"subscribe", uuid>>),
                      !.exc = "BLEError"]

\* HumiGadget.unsubscribe_service: self._con.unsubscribe(uuid)
unsubscribe_service(s, uuid, o) ==
  IF s.exc # "" THEN s
  ELSE IF ~s.con THEN [s EXCEPT !.exc = "AttributeError"]
  ELSE IF s.addr = "none"
       THEN [s EXCEPT !.calls = Append(@, <<"unsubscribe", uuid>>),
                      !.exc = "NotConnectedError"]
  ELSE IF o = "ok"
       THEN [s EXCEPT !.tsub = @ \ {uuid},
                      !.calls = Append(@, <<"unsubscribe", uuid>>)]
       ELSE [s EXCEPT !.calls = Append(@, <<"unsubscribe", uuid>>),
                      !.exc = "BLEError"]

\* a mutant of SHT3xHumiGadget.subscribe: the transport subscription is
\* made on every call, not only for the first callback
SHT3x_subscribe_every(s, callback, o) ==
  LET s1 == IF callback \notin Range(s.cbs)
            THEN [s EXCEPT !.cbs = Append(@, callback)] ELSE s
  IN IF Len(s1.cbs) >= 1
     THEN LET s2 == [s1 EXCEPT !.buf = EmptyDict]
              s3 == subscribe_service(s2, TEMP_NOTI_UUID, o[1])
          IN subscribe_service(s3, HUMI_NOTI_UUID, o[2])
     ELSE s1

\* SHT3xHumiGadget.subscribe
SHT3x_subscribe(s, callback, o) ==
  LET s1 == IF callback \notin Range(s.cbs)
            THEN [s EXCEPT !.cbs = Append(@, callback)] ELSE s
  IN IF Len(s1.cbs) = 1
     THEN LET s2 == [s1 EXCEPT !.buf = EmptyDict]
              s3 == subscribe_service(s2, TEMP_NOTI_UUID, o[1])
          IN subscribe_service(s3, HUMI_NOTI_UUID, o[2])
     ELSE s1

\* a mutant of SHT3xHumiGadget.unsubscribe: without the early return on an
\* empty list, and with a removal that ignores an absent callback
SHT3x_unsubscribe_unguarded(s, callback, o) ==
  LET s1 == IF callback # 0
            THEN [s EXCEPT !.cbs = SelectSeq(@, LAMBDA x : x # callback)]
            ELSE [s EXCEPT !.cbs = <<>>]
  IN IF s1.cbs = <<>>
     THEN LET s2 == unsubscribe_service(s1, TEMP_NOTI_UUID, o[1])
          IN unsubscribe_service(s2, HUMI_NOTI_UUID, o[2])
     ELSE s1

\* SHT3xHumiGadget.unsubscribe; callback 0 stands for callback=None
SHT3x_unsubscribe(s, callback, o) ==
  IF s.cbs = <<>> THEN s
  ELSE IF callback # 0 /\ callback \notin Range(s.cbs)
       THEN [s EXCEPT !.exc = "ValueError"]
  ELSE LET s1 == IF callback # 0
                 THEN [s EXCEPT !.cbs = ListRemove(@, callback)]
                 ELSE [s EXCEPT !.cbs = <<>>]
       IN IF s1.cbs = <<>>
          THEN LET s2 == unsubscribe_service(s1, TEMP_NOTI_UUID, o[1])
               IN unsubscribe_service(s2, HUMI_NOTI_UUID, o[2])
          ELSE s1

\* SHTC1HumiGadget.subscribe
SHTC1_subscribe(s, callback, o) ==
  LET s1 == IF callback \notin Range(s.cbs)
            THEN [s EXCEPT !.cbs = Append(@, callback)] ELSE s
  IN IF Len(s1.cbs) = 1
     THEN subscribe_service(s1, RHT_CHAR_UUID, o[1])
     ELSE s1

\* a mutant of SHTC1HumiGadget.unsubscribe: the test for the last callback
\* is inverted
SHTC1_unsubscribe_inverted(s, callback, o) ==
  IF s.cbs = <<>> THEN s
  ELSE IF callback # 0 /\ callback \notin Range(s.cbs)
       THEN [s EXCEPT !.exc = "ValueError"]
  ELSE LET s1 == IF callback # 0
                 THEN [s EXCEPT !.cbs = ListRemove(@, callback)]
                 ELSE [s EXCEPT !.cbs = <<>>]
       IN IF s1.cbs # <<>>
          THEN unsubscribe_service(s1, RHT_CHAR_UUID, o[1])
          ELSE s1

\* SHTC1HumiGadget.unsubscribe; callback 0 stands for callback=None
SHTC1_unsubscribe(s, callback, o) ==
  IF s.cbs = <<>> THEN s
  ELSE IF callback # 0 /\ callback \notin Range(s.cbs)
       THEN [s EXCEPT !.exc = "ValueError"]
  ELSE LET s1 == IF callback # 0
                 THEN [s EXCEPT !.cbs = ListRemove(@, callback)]
                 ELSE [s EXCEPT !.cbs = <<>>]
       IN IF s1.cbs = <<>>
          THEN unsubscribe_service(s1, RHT_CHAR_UUID, o[1])
          ELSE s1

\* self.subscribe / self.unsubscribe resolved on the variant's class
subscribe(s, callback, o) ==
  IF variant = "SHTC1" THEN SHTC1_subscribe(s, callback, o)
  ELSE SHT3x_subscribe(s, callback, o)

unsubscribe(s, callback, o) ==
  IF variant = "SHTC1" THEN SHTC1_unsubscribe(s, callback, o)
  ELSE SHT3x_unsubscribe(s, callback, o)

\* a mutant of HumiGadget.connect: without the test of self._con
connect_unguarded(s, o) ==
  LET s1 == [s EXCEPT !.cbs = <<>>]
  IN IF ~ble_global THEN [s1 EXCEPT !.exc = "NameError"]
     ELSE LET at == BLEAdapter_connect(ADDRESS_TYPE(variant))
          IN IF o[1] = "ok"
             THEN [s1 EXCEPT !.con = TRUE, !.addr = at, !.tsub = {},
                             !.calls = Append(@, <<"connect", at>>)]
             ELSE [s1 EXCEPT !.calls = Append(@, <<"connect", at>>),
                             !.exc = "NotConnectedError"]

\* HumiGadget.connect; the name ble is looked up in the module globals
connect(s, o) ==
  IF s.con THEN s
  ELSE LET s1 == [s EXCEPT !.cbs = <<>>]
       IN IF ~ble_global THEN [s1 EXCEPT !.exc = "NameError"]
          ELSE LET at == BLEAdapter_connect(ADDRESS_TYPE(variant))
               IN IF o[1] = "ok"
                  THEN [s1 EXCEPT !.con = TRUE, !.addr = at, !.tsub = {},
                                  !.calls = Append(@, <<"connect", at>>)]
                  ELSE [s1 EXCEPT !.calls = Append(@, <<"connect", at>>),
                                  !.exc = "NotConnectedError"]

\* self._con.disconnect(): closing the link ends its subscriptions
con_disconnect(s, o) ==
  IF s.exc # "" THEN s
  ELSE IF o = "ok"
       THEN [s EXCEPT !.tsub = {}, !.addr = "none",
                      !.calls = Append(@, <<"disconnect", "">>)]
       ELSE [s EXCEPT !.calls = Append(@, <<"disconnect", "">>),
                      !.exc = "BLEError"]

\* a mutant of HumiGadget.disconnect: the connection is closed first
disconnect_close_first(s, o) ==
  LET s1 == IF s.con
            THEN LET s0 == con_disconnect(s, o[3])
                 IN IF s.cbs # <<>>
                    THEN unsubscribe(s0, 0, <<o[1], o[2]>>) ELSE s0
            ELSE s
  IN IF s1.exc # "" THEN s1
     ELSE [s1 EXCEPT !.con = FALSE, !.cbs = <<>>]

\* HumiGadget.disconnect
disconnect(s, o) ==
  LET s1 == IF s.con
            THEN LET s0 == IF s.cbs # <<>>
                           THEN unsubscribe(s, 0, <<o[1], o[2]>>) ELSE s
                 IN con_disconnect(s0, o[3])
            ELSE s
  IN IF s1.exc # "" THEN s1
     ELSE [s1 EXCEPT !.con = FALSE, !.cbs = <<>>]

(* ------------------------- notification handlers ----------------------- *)

\* self._con.get_handle(uuid): the attribute handle pygatt resolves a UUID to
get_handle(uuid) ==
  CASE uuid = TEMP_SRVC_UUID -> 1
    [] uuid = HUMI_SRVC_UUID -> 2
    [] OTHER -> 3

\* the handles a notification can carry
Handles == {get_handle(TEMP_SRVC_UUID), get_handle(HUMI_SRVC_UUID), 3}

\* for s in self.rht_callbacks: s(reading)
Dispatch(cbs, reading) ==
  [i \in 1..Len(cbs) |-> [cb |-> cbs[i], reading |-> reading]]

\* a mutant of _on_float_value: the time is stored before data is unpacked
_on_float_value_store_first(s, handle, data, ts) ==
  LET u  == Unpack_f(data)
      s0 == [s EXCEPT !.buf = DictSet(@, "time", ts)]
  IN IF u.kind = "raise" THEN [s0 EXCEPT !.exc = u.val]
     ELSE IF ~s.con THEN [s0 EXCEPT !.exc = "AttributeError"]
     ELSE LET val == u.val[1]
              key == IF handle = get_handle(TEMP_SRVC_UUID) THEN "temperature"
                     ELSE IF handle = get_handle(HUMI_SRVC_UUID) THEN "humidity"
                     ELSE "value"
              s1  == [s0 EXCEPT !.buf = DictSet(@, key, val)]
          IN IF "temperature" \in DOMAIN s1.buf
             THEN [s1 EXCEPT !.exc = "AttributeError"]
             ELSE s1

\* SHT3xHumiGadget._on_float_value(handle, data) running at time ts.
\* The test on line 364 reads the attribute _current_rhty, which no code
\* ever assigns: once its left operand is true, evaluating it raises
\* AttributeError, before any callback is called and before the buffer is
\* replaced by an empty dict.
_on_float_value(s, handle, data, ts) ==
  LET u == Unpack_f(data)
  IN IF u.kind = "raise" THEN [s EXCEPT !.exc = u.val]
     ELSE IF ~s.con THEN [s EXCEPT !.exc = "AttributeError"]
     ELSE LET val == u.val[1]
              key == IF handle = get_handle(TEMP_SRVC_UUID) THEN "temperature"
                     ELSE IF handle = get_handle(HUMI_SRVC_UUID) THEN "humidity"
                     ELSE "value"
              s1  == [s EXCEPT !.buf = DictSet(DictSet(@, "time", ts), key, val)]
          IN IF "temperature" \in DOMAIN s1.buf
             THEN [s1 EXCEPT !.exc = "AttributeError"]
             ELSE s1

\* SHTC1HumiGadget._on_rht_value(handle, data) running at time ts
_on_rht_value(s, handle, data, ts) ==
  LET u == _unpack_fixp(data)
  IN IF u.kind = "raise" THEN [s EXCEPT !.exc = u.val]
     ELSE LET cur_rht == ZipDict(RHT_FORMAT, <<ts>> \o u.val)
          IN [s EXCEPT !.invoked = @ \o Dispatch(s.cbs, cur_rht)]

(* -------------------------------- reads -------------------------------- *)

\* what self._con.char_read(uuid, timeout=10) can do: return the bytes of the
\* characteristic, return None, or raise on a timeout
Replies(uuid) ==
  {[o |-> x, data |-> <<>>] : x \in {"timeout", "none"}}
    \cup {[o |-> "ok", data |-> p] : p \in PayloadsOf(uuid)}

\* a mutant of read_characteristic: a timeout drops the connection object
read_characteristic_drop(s, uuid, unpack, zip_keys, reply, t) ==
  IF ~s.con THEN [s EXCEPT !.exc = "AttributeError"]
  ELSE LET s1 == [s EXCEPT !.calls = Append(@, <<"char_read", uuid>>)]
       IN IF reply.o = "timeout"
          THEN [s1 EXCEPT !.exc = "NotificationTimeout", !.con = FALSE]
          ELSE IF reply.o = "none" THEN [s1 EXCEPT !.res = None]
          ELSE LET u == Unpack(unpack, reply.data)
               IN IF u.kind = "raise" THEN [s1 EXCEPT !.exc = u.val]
                  ELSE [s1 EXCEPT !.res = Ok(ZipDict(zip_keys, <<t>> \o u.val))]

\* HumiGadget.read_characteristic(uuid, unpack, zip_keys) with the reply of
\* char_read and the value t of time.time()
read_characteristic(s, uuid, unpack, zip_keys, reply, t) ==
  IF ~s.con THEN [s EXCEPT !.exc = "AttributeError"]
  ELSE LET s1 == [s EXCEPT !.calls = Append(@, <<"char_read", uuid>>)]
       IN IF reply.o = "timeout" THEN [s1 EXCEPT !.exc = "NotificationTimeout"]
          ELSE IF reply.o = "none" THEN [s1 EXCEPT !.res = None]
          ELSE LET u == Unpack(unpack, reply.data)
               IN IF u.kind = "raise" THEN [s1 EXCEPT !.exc = u.val]
                  ELSE [s1 EXCEPT !.res = Ok(ZipDict(zip_keys, <<t>> \o u.val))]

\* HumiGadget.battery
battery(s, reply, t) ==
  read_characteristic(s, BAT_CHAR_UUID, "<B", BAT_FORMAT, reply, t)

\* SHT3xHumiGadget.temperature
SHT3x_temperature(s, reply, t) ==
  read_characteristic(s, TEMP_NOTI_UUID, "<f", TEMP_FORMAT, reply, t)

\* SHT3xHumiGadget.humidity
SHT3x_humidity(s, reply, t) ==
  read_characteristic(s, HUMI_NOTI_UUID, "<f", HUMI_FORMAT, reply, t)

\* SHT3xHumiGadget.log_interval (getter)
log_interval(s, reply, t) ==
  read_characteristic(s, LOG_INTV_CHAR_UUID, "<i", LOG_INTV_FORMAT, reply, t)

\* SHTC1HumiGadget.humidity_and_temperature
SHTC1_humidity_and_temperature(s, reply, t) ==
  read_characteristic(s, RHT_CHAR_UUID, "_unpack_fixp", RHT_FORMAT, reply, t)

\* a mutant of humidity_and_temperature: without the test of humi, the
\* temperature reading alone is returned when the humidity read gives None
humidity_and_temperature_partial(s, r1, t1, r2, t2) ==
  LET temp == SHT3x_temperature(s, r1, t1)
  IN IF temp.exc # "" \/ temp.res.kind = "none" THEN temp
     ELSE LET humi == SHT3x_humidity(temp, r2, t2)
          IN IF humi.exc # "" THEN humi
             ELSE IF humi.res.kind = "none" THEN [humi EXCEPT !.res = temp.res]
             ELSE [humi EXCEPT !.res =
                     Ok(ZipDict(RHT_FORMAT, <<humi.res.val["time"],
                                              humi.res.val["humidity"],
                                              temp.res.val["temperature"]>>))]

\* HumiGadget.humidity_and_temperature, inherited by SHT3xHumiGadget:
\* self.temperature read at t1, then self.humidity read at t2
humidity_and_temperature(s, r1, t1, r2, t2) ==
  LET temp == SHT3x_temperature(s, r1, t1)
  IN IF temp.exc # "" \/ temp.res.kind = "none" THEN temp
     ELSE LET humi == SHT3x_humidity(temp, r2, t2)
          IN IF humi.exc # "" \/ humi.res.kind = "none" THEN humi
             ELSE [humi EXCEPT !.res =
                     Ok(ZipDict(RHT_FORMAT, <<humi.res.val["time"],
                                              humi.res.val["humidity"],
                                              temp.res.val["temperature"]>>))]

\* the execution contexts notifications are delivered in
Contexts == {1, 2}

\* the local variables of a handler that is not running
Idle == [pc |-> "idle", handle |-> 0, data |-> <<>>, ts |-> 0,
         val |-> Rat(0, 1), key |-> ""]

(* ------------------------------- actions ------------------------------- *)

Last(op, arg, env) == [op |-> op, arg |-> arg, env |-> env]

\* store the object after a method has run on it
Commit(s, l) ==
  /\ _con' = s.con
  /\ addr_type' = s.addr
  /\ rht_callbacks' = s.cbs
  /\ _current_rht' = s.buf
  /\ tsub' = s.tsub
  /\ calls' = s.calls
  /\ invoked' = s.invoked
  /\ last' = l
  /\ ret' = IF s.exc # "" THEN Raise(s.exc) ELSE s.res
  /\ UNCHANGED <<variant, ble_global, frames>>

Connect ==
  \E o \in Outcomes :
    /\ Commit(connect(Self, <<o>>), Last("connect", 0, <<>>))
    /\ UNCHANGED now

Disconnect ==
  \E o1 \in Outcomes, o2 \in Outcomes, o3 \in Outcomes :
    /\ Commit(disconnect(Self, <<o1, o2, o3>>),
              Last("disconnect", 0, <<>>))
    /\ UNCHANGED now

Subscribe ==
  \E cb \in Callbacks, o1 \in Outcomes, o2 \in Outcomes :
    /\ Commit(subscribe(Self, cb, <<o1, o2>>),
              Last("subscribe", cb, <<>>))
    /\ UNCHANGED now

\* callback 0 is unsubscribe() without an argument
Unsubscribe ==
  \E cb \in Callbacks \cup {0}, o1 \in Outcomes, o2 \in Outcomes :
    /\ Commit(unsubscribe(Self, cb, <<o1, o2>>),
              Last("unsubscribe", cb, <<>>))
    /\ UNCHANGED now

\* pygatt delivers a notification of a subscribed characteristic (SHT3x)
NotifyFloat ==
  /\ variant = "SHT3x"
  /\ \E handle \in Handles, data \in TempPayloads \cup HumiPayloads :
       /\ \/ /\ handle = get_handle(TEMP_SRVC_UUID)
             /\ TEMP_NOTI_UUID \in tsub /\ data \in TempPayloads
          \/ /\ handle = get_handle(HUMI_SRVC_UUID)
             /\ HUMI_NOTI_UUID \in tsub /\ data \in HumiPayloads
          \/ handle = 3 /\ tsub # {} /\ data = <<0, 0, 32, 65>>
       /\ Commit(_on_float_value(Self, handle, data, now),
                 Last("notify", handle, <<data>>))
  /\ UNCHANGED now

\* pygatt delivers a notification of the combined characteristic (SHTC1)
NotifyRht ==
  /\ variant = "SHTC1"
  /\ RHT_CHAR_UUID \in tsub
  /\ \E data \in FixpPayloads :
       Commit(_on_rht_value(Self, 3, data, now), Last("notify", 3, <<data>>))
  /\ UNCHANGED now

ReadBattery ==
  \E r \in Replies(BAT_CHAR_UUID) :
    /\ Commit(battery(Self, r, now), Last("battery", 0, <<r>>))
    /\ UNCHANGED now

\* gadget.temperature: a single read on either variant
ReadTemperature ==
  /\ \/ /\ variant = "SHT3x"
        /\ \E r \in Replies(TEMP_NOTI_UUID) :
             Commit(SHT3x_temperature(Self, r, now),
                    Last("temperature", 0, <<r>>))
     \/ /\ variant = "SHTC1"
        /\ \E r \in Replies(RHT_CHAR_UUID) :
             Commit(SHTC1_humidity_and_temperature(Self, r, now),
                    Last("temperature", 0, <<r>>))
  /\ UNCHANGED now

\* gadget.humidity: a single read on either variant
ReadHumidity ==
  /\ \/ /\ variant = "SHT3x"
        /\ \E r \in Replies(HUMI_NOTI_UUID) :
             Commit(SHT3x_humidity(Self, r, now), Last("humidity", 0, <<r>>))
     \/ /\ variant = "SHTC1"
        /\ \E r \in Replies(RHT_CHAR_UUID) :
             Commit(SHTC1_humidity_and_temperature(Self, r, now),
                    Last("humidity", 0, <<r>>))
  /\ UNCHANGED now

ReadLogInterval ==
  /\ variant = "SHT3x"
  /\ \E r \in Replies(LOG_INTV_CHAR_UUID) :
       Commit(log_interval(Self, r, now), Last("log_interval", 0, <<r>>))
  /\ UNCHANGED now

\* gadget.humidity_and_temperature: two reads on the SHT3x (the clock may
\* advance between them), one on the SHTC1.  The second reply is only an
\* input when the second read is issued.
ReadHumidityAndTemperature ==
  \/ /\ variant = "SHT3x"
     /\ \E r1 \in Replies(TEMP_NOTI_UUID), r2 \in Replies(HUMI_NOTI_UUID),
           t2 \in {now, now + 1} \cap (0..MaxTime) :
          LET s == humidity_and_temperature(Self, r1, now, r2, t2)
          IN /\ Len(s.calls) = 2 \/ (r2.o = "none" /\ t2 = now)
             /\ Commit(s, Last("humidity_and_temperature", 0,
                               <<r1, now, r2, t2>>))
             /\ now' = t2
  \/ /\ variant = "SHTC1"
     /\ \E r \in Replies(RHT_CHAR_UUID) :
          Commit(SHTC1_humidity_and_temperature(Self, r, now),
                 Last("humidity_and_temperature", 0, <<r>>))
     /\ UNCHANGED now

\* the wall clock advances
Tick ==
  /\ now < MaxTime
  /\ now' = now + 1
  /\ UNCHANGED <<variant, ble_global, _con, addr_type, rht_callbacks,
                 _current_rht, tsub, last, calls, invoked, ret, frames>>

Init ==
  /\ variant \in {"SHT3x", "SHTC1"}
  /\ ble_global \in BOOLEAN
  /\ _con = FALSE
  /\ addr_type = "none"
  /\ rht_callbacks = <<>>
  /\ _current_rht = EmptyDict
  /\ tsub = {}
  /\ now = 0
  /\ last = Last("init", 0, <<>>)
  /\ calls = <<>>
  /\ invoked = <<>>
  /\ ret = None
  /\ frames = [c \in Contexts |-> Idle]

\* the connection life cycle, subscriptions and notifications
Next ==
  \/ Connect
  \/ Disconnect
  \/ Subscribe
  \/ Unsubscribe
  \/ NotifyFloat
  \/ NotifyRht
  \/ Tick

Spec == Init /\ [][Next]_vars

\* The link drops without a call of the owner (peer gone, radio loss).  The
\* gadget registers no handler for it and nothing in HumiGadget runs: the
\* connection object stays in self._con, only the link and its
\* subscriptions are gone.
TransportDrop ==
  /\ _con /\ addr_type # "none"
  /\ tsub' = {}
  /\ addr_type' = "none"
  /\ last' = Last("drop", 0, <<>>)
  /\ calls' = <<>>
  /\ invoked' = <<>>
  /\ ret' = None
  /\ UNCHANGED <<variant, ble_global, _con, rht_callbacks, _current_rht, now,
                 frames>>

\* the life cycle with links that drop
NextDrop ==
  \/ Connect
  \/ Disconnect
  \/ Subscribe
  \/ Unsubscribe
  \/ NotifyFloat
  \/ NotifyRht
  \/ Tick
  \/ TransportDrop

SpecDrop == Init /\ [][NextDrop]_vars

(* ------------------------------- factory ------------------------------- *)

\* discovered devices: dicts with an 'Address' and, when the peer advertises
\* one, a 'Name'
Devices ==
  { [Name |-> SHTC1_NAME, Address |-> "a1"],
    [Name |-> SHT3X_NAME, Address |-> "a2"],
    [Name |-> SHT3X_NAME, Address |-> "a3"],
    [Name |-> "smart humigadget", Address |-> "a4"],
    [Address |-> "a5"] }

RECURSIVE SeqsUpTo(_, _)
SeqsUpTo(S, n) ==
  IF n = 0 THEN {<<>>}
  ELSE LET T == SeqsUpTo(S, n - 1)
       IN T \cup {Append(t, x) : t \in {u \in T : Len(u) = n - 1}, x \in S}

DeviceLists == SeqsUpTo(Devices, MaxDevices)

\* a mutant of the test in filter_smartgadgets: every named device is kept
InGadgetNames_any(dev) == "Name" \in DOMAIN dev

\* 'Name' in dev and dev['Name'] in HumiGadget.GADGET_NAMES
InGadgetNames(dev) ==
  "Name" \in DOMAIN dev /\ dev["Name"] \in Range(GADGET_NAMES)

\* HumiGadget.filter_smartgadgets: the list comprehension keeps the order
filter_smartgadgets(devicelist) == SelectSeq(devicelist, InGadgetNames)

\* HumiGadget.create: the class constructed, None, or the KeyError of
\* device['Name']
create(device) ==
  IF "Name" \notin DOMAIN device THEN Raise("KeyError")
  ELSE IF device["Name"] = SHTC1_NAME THEN Ok("SHTC1")
  ELSE IF device["Name"] = SHT3X_NAME THEN Ok("SHT3x")
  ELSE None

\* the device list of the scan the factory calls work on
devicelist == last.env[1]

FilterSmartgadgets ==
  /\ last' = Last("filter_smartgadgets", 0, last.env)
  /\ ret' = Ok(filter_smartgadgets(devicelist))
  /\ UNCHANGED <<variant, ble_global, _con, addr_type, rht_callbacks,
                 _current_rht, tsub, now, calls, invoked, frames>>

\* create(device) on a device of the list; a constructed gadget starts as
\* __init__ leaves it
Create ==
  \E i \in 1..Len(devicelist) :
    LET r == create(devicelist[i])
    IN /\ last' = Last("create", i, last.env)
       /\ ret' = r
       /\ variant' = IF r.kind = "ok" THEN r.val ELSE variant
       /\ _con' = FALSE
       /\ rht_callbacks' = <<>>
       /\ _current_rht' = EmptyDict
       /\ UNCHANGED <<ble_global, addr_type, tsub, now, calls, invoked,
                      frames>>

InitFactory ==
  /\ variant = "none"
  /\ ble_global = TRUE
  /\ _con = FALSE
  /\ addr_type = "none"
  /\ rht_callbacks = <<>>
  /\ _current_rht = EmptyDict
  /\ tsub = {}
  /\ now = 0
  /\ \E l \in DeviceLists : last = Last("scan", 0, <<l>>)
  /\ calls = <<>>
  /\ invoked = <<>>
  /\ ret = None
  /\ frames = [c \in Contexts |-> Idle]

NextFactory ==
  \/ FilterSmartgadgets
  \/ Create

SpecFactory == InitFactory /\ [][NextFactory]_vars

(* ------------------- interleaved notification handlers ----------------- *)

\* the handler running in context c ends: it returned (exc = "") or raised
Return(c, exc) ==
  /\ last' = Last("notify", frames[c].handle, <<frames[c].data>>)
  /\ ret' = IF exc = "" THEN None ELSE Raise(exc)
  /\ calls' = <<>>
  /\ invoked' = <<>>
  /\ frames' = [frames EXCEPT ![c] = Idle]

\* _on_float_value, lines 354-360, in context c: ts, val and key are locals
Enter(c) ==
  /\ variant = "SHT3x" /\ _con
  /\ frames[c].pc = "idle"
  /\ \E handle \in {get_handle(TEMP_SRVC_UUID), get_handle(HUMI_SRVC_UUID)} :
       LET data == IF handle = get_handle(TEMP_SRVC_UUID)
                   THEN <<0, 0, 32, 65>> ELSE <<0, 0, 72, 66>>
           u    == Unpack_f(data)
           key  == IF handle = get_handle(TEMP_SRVC_UUID) THEN "temperature"
                   ELSE IF handle = get_handle(HUMI_SRVC_UUID) THEN "humidity"
                   ELSE "value"
       IN /\ IF handle = get_handle(TEMP_SRVC_UUID)
             THEN TEMP_NOTI_UUID \in tsub ELSE HUMI_NOTI_UUID \in tsub
          /\ frames' = [frames EXCEPT ![c] =
                          [pc |-> "l361", handle |-> handle, data |-> data,
                           ts |-> now, val |-> u.val[1], key |-> key]]
  /\ UNCHANGED <<variant, ble_global, _con, addr_type, rht_callbacks,
                 _current_rht, tsub, now, last, calls, invoked, ret>>

\* line 361: self._current_rht['time'] = ts
StoreTime(c) ==
  /\ frames[c].pc = "l361"
  /\ _current_rht' = DictSet(_current_rht, "time", frames[c].ts)
  /\ frames' = [frames EXCEPT ![c].pc = "l362"]
  /\ UNCHANGED <<variant, ble_global, _con, addr_type, rht_callbacks, tsub,
                 now, last, calls, invoked, ret>>

\* line 362: self._current_rht[key] = val
StoreValue(c) ==
  /\ frames[c].pc = "l362"
  /\ _current_rht' = DictSet(_current_rht, frames[c].key, frames[c].val)
  /\ frames' = [frames EXCEPT ![c].pc = "l363"]
  /\ UNCHANGED <<variant, ble_global, _con, addr_type, rht_callbacks, tsub,
                 now, last, calls, invoked, ret>>

\* lines 363-364: the test; with a temperature buffered its right operand
\* reads self._current_rhty and raises, so lines 365-367 never run
TestComplete(c) ==
  /\ frames[c].pc = "l363"
  /\ Return(c, IF "temperature" \in DOMAIN _current_rht
               THEN "AttributeError" ELSE "")
  /\ UNCHANGED <<variant, ble_global, _con, addr_type, rht_callbacks,
                 _current_rht, tsub, now>>

\* the owner connects and subscribes; two notification contexts run the
\* handler, interleaved line by line
NextInterleaved ==
  \/ Connect
  \/ Subscribe
  \/ Tick
  \/ \E c \in Contexts : Enter(c)
  \/ \E c \in Contexts : StoreTime(c)
  \/ \E c \in Contexts : StoreValue(c)
  \/ \E c \in Contexts : TestComplete(c)

\* a modern gadget, in a module where the global ble exists
InitInterleaved == Init /\ variant = "SHT3x" /\ ble_global = TRUE

SpecInterleaved == InitInterleaved /\ [][NextInterleaved]_vars

\* the same with the property reads, which never write the object
NextRead ==
  \/ Connect
  \/ Disconnect
  \/ Subscribe
  \/ Unsubscribe
  \/ NotifyFloat
  \/ NotifyRht
  \/ Tick
  \/ ReadBattery
  \/ ReadTemperature
  \/ ReadHumidity
  \/ ReadLogInterval
  \/ ReadHumidityAndTemperature

SpecRead == Init /\ [][NextRead]_vars

(* ------------------------- vocabulary of the claims -------------------- *)

\* the notification characteristics of the gadget's variant, as a set
Chars == IF variant = "SHTC1" THEN {RHT_CHAR_UUID}
         ELSE {TEMP_NOTI_UUID, HUMI_NOTI_UUID}

\* number of transport calls op(uuid) issued by the most recent call
CountCalls(op, uuid) ==
  Cardinality({i \in 1..Len(calls) : calls[i] = <<op, uuid>>})

\* the most recent call returned normally
Completed == ret.kind # "raise"

\* the gadget's own state and the state of its connection
core == <<_con, addr_type, rht_callbacks, _current_rht, tsub>>

\* C1: on a connected gadget with no callbacks, subscribe(cb1) issues exactly
\* one transport subscribe per notification characteristic of the variant;
\* a following subscribe(cb2), cb2 # cb1, issues no transport call; a
\* following unsubscribe(cb1) issues no transport unsubscribe; a following
\* unsubscribe(cb2) issues exactly one transport unsubscribe per
\* characteristic.  Stated step by step on the states the scenario is in.
C1_SubscribeOnceUnsubscribeLast ==
  [][ /\ ( /\ _con /\ rht_callbacks = <<>>
           /\ last'.op = "subscribe" /\ Completed' )
         => /\ \A c \in Chars : CountCalls("subscribe", c)' = 1
            /\ Len(calls') = Cardinality(Chars)
      /\ ( /\ _con /\ Len(rht_callbacks) = 1 /\ tsub = Chars
           /\ last'.op = "subscribe" /\ last'.arg \notin Range(rht_callbacks) )
         => /\ calls' = <<>>
            /\ Len(rht_callbacks') = 2
      /\ ( /\ _con /\ Len(rht_callbacks) = 2 /\ tsub = Chars
           /\ last'.op = "unsubscribe" /\ last'.arg \in Range(rht_callbacks) )
         => /\ calls' = <<>>
            /\ Len(rht_callbacks') = 1
      /\ ( /\ _con /\ Len(rht_callbacks) = 1 /\ tsub = Chars
           /\ last'.op = "unsubscribe" /\ last'.arg \in Range(rht_callbacks)
           /\ Completed' )
         => /\ \A c \in Chars : CountCalls("unsubscribe", c)' = 1
            /\ Len(calls') = Cardinality(Chars)
    ]_vars

\* the scenario of C1 has run to its end on the split-characteristic variant:
\* the last callback was just removed and both characteristics unsubscribed
C1_Witness ==
  /\ variant = "SHT3x" /\ _con
  /\ last.op = "unsubscribe" /\ last.arg # 0 /\ Completed
  /\ rht_callbacks = <<>>
  /\ calls = <<<<"unsubscribe", TEMP_NOTI_UUID>>, <<"unsubscribe", HUMI_NOTI_UUID>>>>

\* every notification characteristic is subscribed at the transport exactly
\* when some callback is registered
RefInv == \A c \in Chars : (c \in tsub) <=> (Len(rht_callbacks) > 0)

\* the step is a connect, subscribe, unsubscribe or disconnect call that raised
LifecycleRaised ==
  /\ last'.op \in {"connect", "disconnect", "subscribe", "unsubscribe"}
  /\ ret'.kind = "raise"
  /\ now' = now

\* C2: in every state reached by completed connect, subscribe, unsubscribe
\* and disconnect calls, each notification characteristic of the variant is
\* subscribed at the transport iff at least one callback is registered: it
\* holds after construction and every step other than a call that raised
\* preserves it.
C2_SubscribedIffCallbacks ==
  /\ RefInv
  /\ [][ (RefInv /\ ~LifecycleRaised) => RefInv' ]_vars

\* two callbacks registered on a live connection, all characteristics subscribed
C2_Witness ==
  /\ _con /\ Len(rht_callbacks) = 2 /\ tsub = Chars
  /\ last.op = "subscribe" /\ Completed

\* the payload of the notification or the reply of the read that last ran
Data == last.env[1]

\* C3 (as claimed): on a connected SHT3x gadget with a callback subscribed,
\* a temperature notification into an empty buffer invokes no callback, and
\* the humidity notification that follows invokes each registered callback
\* exactly once with the temperature of the first notification, the
\* humidity of the second and the arrival time of the second, and leaves
\* the buffer empty.
C3_FusedDispatch ==
  [][ /\ ( /\ variant = "SHT3x" /\ _con /\ rht_callbacks # <<>>
           /\ _current_rht = EmptyDict
           /\ last'.op = "notify" /\ last'.arg = get_handle(TEMP_SRVC_UUID)
           /\ Len(Data') = 4 /\ now' = now )
         => invoked' = <<>>
      /\ ( /\ variant = "SHT3x" /\ _con /\ rht_callbacks # <<>>
           /\ last.op = "notify" /\ last.arg = get_handle(TEMP_SRVC_UUID)
           /\ Len(Data) = 4
           /\ DOMAIN _current_rht = {"time", "temperature"}
           /\ last'.op = "notify" /\ last'.arg = get_handle(HUMI_SRVC_UUID)
           /\ Len(Data') = 4 /\ now' = now )
         => /\ invoked' =
                 [i \in 1..Len(rht_callbacks) |->
                    [cb |-> rht_callbacks[i],
                     reading |-> [time |-> now,
                                  temperature |-> Unpack_f(Data).val[1],
                                  humidity |-> Unpack_f(Data').val[1]]]]
            /\ _current_rht' = EmptyDict
    ]_vars

\* S16(u): the 16-bit two's complement value of u in 0..65535
S16(u) == ((u + 32768) % 65536) - 32768

\* C4: on the SHTC1 every notification of the combined characteristic with
\* a 4-byte payload invokes each registered callback exactly once, in order
\* of registration, with temperature = first signed 16-bit little-endian
\* integer / 100 and humidity = second / 100, and writes nothing of the
\* gadget's state.
C4_CombinedDispatch ==
  [][ ( /\ variant = "SHTC1"
        /\ last'.op = "notify" /\ Len(Data') = 4 /\ now' = now )
      => /\ Len(invoked') = Len(rht_callbacks)
         /\ \A i \in 1..Len(rht_callbacks) :
              /\ invoked'[i].cb = rht_callbacks[i]
              /\ \A j \in 1..Len(rht_callbacks) :
                   rht_callbacks[j] = rht_callbacks[i] => j = i
              /\ DOMAIN invoked'[i].reading = {"time", "temperature", "humidity"}
              /\ invoked'[i].reading["temperature"]
                   = [num |-> S16(Data'[1] + 256 * Data'[2]), den |-> 100]
              /\ invoked'[i].reading["humidity"]
                   = [num |-> S16(Data'[3] + 256 * Data'[4]), den |-> 100]
         /\ core' = core
    ]_vars

\* a notification decoding to (2550, 4820) reached two callbacks as 25.50 / 48.20
C4_Witness ==
  /\ variant = "SHTC1" /\ last.op = "notify" /\ Data = <<246, 9, 212, 18>>
  /\ Len(rht_callbacks) = 2 /\ Len(invoked) = 2
  /\ invoked[2].reading["temperature"] = [num |-> 2550, den |-> 100]
  /\ invoked[2].reading["humidity"] = [num |-> 4820, den |-> 100]

\* C5 (as claimed): disconnect() on a connected gadget with registered
\* callbacks ends with connected == False and no registered callback,
\* whether the transport calls succeed or raise.
C5_DisconnectAlwaysLocal ==
  [][ ( /\ _con /\ rht_callbacks # <<>> /\ tsub = Chars
        /\ last'.op = "disconnect" /\ now' = now )
      => (~_con' /\ rht_callbacks' = <<>>)
    ]_vars

\* the reply r of a char_read carries a well-formed payload of n bytes
Answered(r, n) == r.o = "ok" /\ Len(r.data) = n

\* C6 (as claimed): when both sub-reads succeed, humidity_and_temperature of
\* the SHT3x returns temperature = the value decoded from the temperature
\* read, humidity = the value decoded from the humidity read and time = the
\* timestamp of the second (humidity) read.
C6_ComposedReadFields ==
  ( /\ variant = "SHT3x" /\ last.op = "humidity_and_temperature"
    /\ ret.kind = "ok" )
  => /\ ret.val["temperature"] = Unpack_f(last.env[1].data).val[1]
     /\ ret.val["humidity"] = Unpack_f(last.env[3].data).val[1]
     /\ ret.val["time"] = last.env[4]

\* C7: humidity_and_temperature of the SHT3x returns a reading only when
\* both sub-reads succeeded, and then the reading holds time, temperature
\* and humidity; when either sub-read returns no data or raises (also when
\* the first succeeded and the second failed) the call returns None or
\* raises.
C7_ComposedReadAtomic ==
  ( variant = "SHT3x" /\ last.op = "humidity_and_temperature" )
  => /\ ret.kind = "ok" =>
          /\ _con
          /\ Answered(last.env[1], 4) /\ Answered(last.env[3], 4)
          /\ DOMAIN ret.val = {"time", "temperature", "humidity"}
     /\ (~Answered(last.env[1], 4) \/ ~Answered(last.env[3], 4)) =>
          ret.kind \in {"none", "raise"}

\* the temperature read succeeded and the humidity read then timed out
C7_Witness ==
  /\ variant = "SHT3x" /\ last.op = "humidity_and_temperature" /\ _con
  /\ Answered(last.env[1], 4) /\ last.env[3].o = "timeout"
  /\ ret = Raise("NotificationTimeout")
  /\ Len(calls) = 2

\* the property reads of one characteristic
SingleReads == {"battery", "temperature", "humidity", "log_interval"}

\* the width in bytes of the payload of a property read on the variant
Width(op) ==
  IF op = "battery" THEN 1 ELSE 4

\* C8: a read of battery, temperature, humidity, log interval or of the
\* combined characteristic that fails with a transport timeout leaves the
\* connection, the registered callbacks, the transport subscriptions and the
\* fusion buffer unchanged, and the next read of the same characteristic
\* returns a reading when the transport answers.
C8_TimeoutLeavesState ==
  [][ /\ ( /\ last'.op \in SingleReads \cup {"humidity_and_temperature"}
           /\ ret' = Raise("NotificationTimeout") )
         => core' = core
      /\ ( /\ last.op \in SingleReads \cup {"humidity_and_temperature"}
           /\ ret = Raise("NotificationTimeout")
           /\ last'.op = last.op
           /\ last' # last
           /\ \/ /\ last.op \in SingleReads \/ variant = "SHTC1"
                 /\ Answered(last'.env[1], Width(last.op))
              \/ /\ last.op = "humidity_and_temperature" /\ variant = "SHT3x"
                 /\ Answered(last'.env[1], 4) /\ Answered(last'.env[3], 4) )
         => /\ ret'.kind = "ok"
            /\ "time" \in DOMAIN ret'.val
    ]_vars

\* a read that timed out was repeated and answered, with callbacks registered
\* and a half-filled fusion buffer in place
C8_Witness ==
  /\ variant = "SHT3x" /\ _con /\ rht_callbacks # <<>> /\ tsub = Chars
  /\ _current_rht # EmptyDict
  /\ last.op = "humidity" /\ ret.kind = "ok"
  /\ ret.val["humidity"] = [num |-> 50, den |-> 1]

\* C9: connect() on a connected gadget issues no transport call, returns
\* normally and leaves the connection, the registered callbacks, the
\* transport subscriptions and the fusion buffer as they were.
C9_ConnectIdempotent ==
  [][ ( _con /\ last'.op = "connect" /\ now' = now )
      => /\ calls' = <<>>
         /\ ret'.kind = "none"
         /\ core' = core
    ]_vars

\* connect() was called on a gadget that was connected and subscribed
C9_Witness ==
  /\ last.op = "connect" /\ _con /\ calls = <<>>
  /\ rht_callbacks # <<>> /\ tsub = Chars

\* the step is a connect() that opened a new transport connection
Opened == ~_con /\ _con' /\ last'.op = "connect"

\* C10 (as claimed): every connect() that opens a new connection uses the
\* variant's address type and leaves both the registered callbacks and the
\* fusion buffer empty.
C10_ConnectClearsAll ==
  [][ Opened
      => /\ variant = "SHTC1" => calls' = <<<<"connect", "public">>>>
         /\ variant = "SHT3x" => calls' = <<<<"connect", "random">>>>
         /\ rht_callbacks' = <<>>
         /\ _current_rht' = EmptyDict
    ]_vars

\* C10 (amended): every connect() that opens a new connection uses the
\* variant's address type ('public' for SHTC1, 'random' for SHT3x) and
\* leaves no callback registered; it leaves the fusion buffer as it was,
\* and the subscribe() that registers the first callback empties the buffer.
C10_ConnectClearsCallbacks ==
  [][ /\ Opened
         => /\ variant = "SHTC1" =>
                 (calls' = <<<<"connect", "public">>>> /\ addr_type' = "public")
            /\ variant = "SHT3x" =>
                 (calls' = <<<<"connect", "random">>>> /\ addr_type' = "random")
            /\ rht_callbacks' = <<>>
            /\ tsub' = {}
            /\ _current_rht' = _current_rht
      /\ ( rht_callbacks = <<>> /\ last'.op = "subscribe" /\ now' = now )
         => _current_rht' = EmptyDict
    ]_vars

\* a connection was opened while the buffer still held a field of the
\* session before
C10_Witness ==
  /\ last.op = "connect" /\ _con /\ calls # <<>>
  /\ rht_callbacks = <<>>
  /\ "humidity" \in DOMAIN _current_rht

\* C11 (as claimed): when the transport signals that the connection dropped,
\* the gadget becomes disconnected: connected is False and no callback
\* remains registered.
C11_DropDisconnects ==
  [][ ( last'.op = "drop" /\ addr_type # "none" /\ addr_type' = "none" )
      => (~_con' /\ rht_callbacks' = <<>>)
    ]_vars

\* C12 (as claimed): a subscribe() whose transport subscribe raises leaves
\* the gadget consistent: every notification characteristic is subscribed at
\* the transport iff a callback is registered, as before the call.
C12_FailedSubscribeConsistent ==
  [][ ( /\ _con /\ RefInv
        /\ last'.op = "subscribe" /\ ret'.kind = "raise" /\ now' = now )
      => RefInv'
    ]_vars

\* the positions of the devices whose name makes create return a gadget
Creatable(l) ==
  {i \in 1..Len(l) : "Name" \in DOMAIN l[i] /\ create(l[i]).kind = "ok"}

\* C13: create chooses the variant from the advertised name alone (legacy for
\* 'SHTC1 smart gadget', modern for 'Smart Humigadget', None for any other
\* name), and filter_smartgadgets returns exactly the devices with a name
\* create accepts, in the order of the input list.
C13_CreateAndFilter ==
  /\ last.op = "create" =>
       LET dev == devicelist[last.arg]
       IN "Name" \in DOMAIN dev =>
            /\ dev.Name = "SHTC1 smart gadget"
                 => (ret = Ok("SHTC1") /\ variant = "SHTC1")
            /\ dev.Name = "Smart Humigadget"
                 => (ret = Ok("SHT3x") /\ variant = "SHT3x")
            /\ dev.Name \notin {"SHTC1 smart gadget", "Smart Humigadget"}
                 => ret = None
  /\ last.op = "filter_smartgadgets" =>
       LET K == Creatable(devicelist)
       IN /\ ret.kind = "ok"
          /\ Len(ret.val) = Cardinality(K)
          /\ \A i \in K :
               ret.val[Cardinality({j \in K : j <= i})] = devicelist[i]

C13_Witness ==
  /\ last.op = "filter_smartgadgets"
  /\ Len(devicelist) = 3
  /\ \E i \in 1..3 : "Name" \notin DOMAIN devicelist[i]
  /\ Len(ret.val) = 2
  /\ ret.val[1].Name = "Smart Humigadget"
  /\ ret.val[2].Name = "SHTC1 smart gadget"

\* the step is a call that removes the last registered callback(s) of a
\* fully subscribed gadget: unsubscribe() / unsubscribe(sole callback), or
\* disconnect() with its unsubscribe-all
RemovesLast ==
  /\ _con /\ rht_callbacks # <<>> /\ tsub = Chars
  /\ now' = now
  /\ \/ last'.op = "disconnect"
     \/ /\ last'.op = "unsubscribe"
        /\ (last'.arg = 0 \/ rht_callbacks = <<last'.arg>>)

\* C14 (as claimed): when the last callback of a modern gadget is removed,
\* the transport unsubscribe is attempted for the temperature and for the
\* humidity characteristic, also when the first attempt fails, and no
\* callback remains registered.
C14_UnsubscribeEveryCharacteristic ==
  [][ (variant = "SHT3x" /\ RemovesLast)
      => /\ CountCalls("unsubscribe", TEMP_NOTI_UUID)' = 1
         /\ CountCalls("unsubscribe", HUMI_NOTI_UUID)' = 1
         /\ rht_callbacks' = <<>>
    ]_vars

\* C15 (as claimed): when a notification handler has run, the fusion buffer
\* does not hold a temperature together with a humidity: a completed pair
\* was dispatched and the buffer emptied in the same run.
C15_BufferNeverComplete ==
  last.op = "notify" =>
    ~({"temperature", "humidity"} \subseteq DOMAIN _current_rht)

\* C16 (as claimed): with two notification deliveries interleaved in any
\* way, the handler run that finds the pair complete calls each registered
\* callback exactly once with a reading holding time, temperature and
\* humidity, and leaves the buffer empty.
C16_AtomicDispatch ==
  [][ \A c \in Contexts :
        ( /\ frames[c].pc = "l363" /\ frames'[c].pc = "idle"
          /\ {"temperature", "humidity"} \subseteq DOMAIN _current_rht )
        => /\ Len(invoked') = Len(rht_callbacks)
           /\ \A i \in 1..Len(invoked') :
                /\ invoked'[i].cb = rht_callbacks[i]
                /\ DOMAIN invoked'[i].reading
                     = {"time", "temperature", "humidity"}
           /\ _current_rht' = EmptyDict
    ]_vars

\* C17: in disconnect() on a connected gadget, no transport unsubscribe is
\* issued after the connection was closed; with a callback registered, the
\* unsubscribes come first and the connection is closed only after one was
\* issued for every notification characteristic; with no callback the only
\* transport call is the one that closes the connection.
C17_UnsubscribeBeforeClose ==
  [][ (_con /\ last'.op = "disconnect" /\ now' = now)
      => /\ \A i \in 1..Len(calls') : \A k \in 1..Len(calls') :
              (calls'[i][1] = "unsubscribe" /\ calls'[k][1] = "disconnect")
                => i < k
         /\ rht_callbacks # <<>> =>
              /\ calls' # <<>> /\ calls'[1][1] = "unsubscribe"
              /\ \A k \in 1..Len(calls') :
                   calls'[k][1] = "disconnect" =>
                     \A c \in Chars :
                       \E i \in 1..(k - 1) : calls'[i] = <<"unsubscribe", c>>
         /\ rht_callbacks = <<>> => calls' = << <<"disconnect", "">> >>
    ]_vars

\* a disconnect() of a modern gadget that unsubscribed both characteristics
\* and then closed the connection
C17_Witness ==
  /\ last.op = "disconnect" /\ Completed /\ ~_con
  /\ calls = << <<"unsubscribe", TEMP_NOTI_UUID>>,
                <<"unsubscribe", HUMI_NOTI_UUID>>,
                <<"disconnect", "">> >>

\* C18 (as claimed): a subscribe or unsubscribe call issues no transport
\* subscribe for a characteristic that is subscribed when the call starts,
\* also when the callback given to subscribe is already registered.
C18_NoDoubleSubscribe ==
  [][ ( /\ _con /\ now' = now
        /\ last'.op \in {"subscribe", "unsubscribe"} )
      => \A c \in Chars : c \in tsub => CountCalls("subscribe", c)' = 0
    ]_vars

\* C19: a notification whose payload is not 4 bytes long makes the handler of
\* either variant raise struct.error; no callback is called and the fusion
\* buffer, the callbacks and the connection are as before.
C19_MalformedRejected ==
  [][ (last'.op = "notify" /\ Len(Data') # 4 /\ now' = now)
      => /\ ret' = Raise("struct.error")
         /\ invoked' = <<>>
         /\ core' = core
    ]_vars

\* a short humidity payload rejected while a callback is registered and a
\* humidity value is buffered
C19_Witness ==
  /\ variant = "SHT3x"
  /\ last.op = "notify" /\ Len(Data) = 3
  /\ ret = Raise("struct.error")
  /\ rht_callbacks # <<>>
  /\ "humidity" \in DOMAIN _current_rht

\* C20: unsubscribe(cb) with cb not registered, and unsubscribe() with no
\* callback registered, issue no transport call and leave the callbacks and
\* the transport subscriptions as they were.
C20_UnsubscribeUnregistered ==
  [][ ( /\ last'.op = "unsubscribe" /\ now' = now
        /\ \/ last'.arg # 0 /\ last'.arg \notin Range(rht_callbacks)
           \/ last'.arg = 0 /\ rht_callbacks = <<>> )
      => (calls' = <<>> /\ core' = core)
    ]_vars

\* unsubscribe of an unregistered callback while another one is registered
\* and the characteristics are subscribed
C20_Witness ==
  /\ last.op = "unsubscribe" /\ last.arg # 0
  /\ rht_callbacks # <<>> /\ last.arg \notin Range(rht_callbacks)
  /\ _con /\ tsub = Chars
  /\ calls = <<>>

====
